---------------------------- MODULE Spec2Model ----------------------------
(***************************************************************************)
(* postprocess_docs.py: cleanup of docs/modules and docs/README.md, then a *)
(* walk of docs that drops the first two lines of every *.md file and, for *)
(* files whose directory path contains "classes", removes one "#" from     *)
(* every heading marker.                                                   *)
(*                                                                         *)
(* A file's content is a sequence of characters; LF and CR stand for "\n"  *)
(* and "\r".  A name is a sequence of fragments ("sub" "classes"), a path  *)
(* a sequence of names.                                                    *)
(***************************************************************************)
EXTENDS Naturals, Sequences, FiniteSets

LF == "LF"
CR == "CR"

\* Bounds of the model.
MaxLines == 5
MaxRuns == 2
MaxLen == 5

(***************************************************************************)
(* Text: what open(..., 'r'/'w', encoding='utf-8') and the file methods do *)
(***************************************************************************)

\* Reading in text mode with newline=None: "\r\n" and a lone "\r" become "\n".
RECURSIVE Decode(_)
Decode(s) ==
    IF s = <<>> THEN <<>>
    ELSE IF Head(s) = CR
         THEN IF Len(s) >= 2 /\ s[2] = LF
              THEN <<LF>> \o Decode(SubSeq(s, 3, Len(s)))
              ELSE <<LF>> \o Decode(Tail(s))
         ELSE <<Head(s)>> \o Decode(Tail(s))

\* Writing in text mode with newline=None: every "\n" becomes os.linesep.
RECURSIVE Encode(_, _)
Encode(s, sep) ==
    IF s = <<>> THEN <<>>
    ELSE (IF Head(s) = LF THEN sep ELSE <<Head(s)>>) \o Encode(Tail(s), sep)

\* Index of the first LF of s, or 0.
RECURSIVE FirstLF(_, _)
FirstLF(s, i) ==
    IF i > Len(s) THEN 0
    ELSE IF s[i] = LF THEN i
    ELSE FirstLF(s, i + 1)

\* file.readlines(): the lines of the decoded text, each with its "\n".
RECURSIVE ReadLines(_)
ReadLines(s) ==
    IF s = <<>> THEN <<>>
    ELSE LET i == FirstLF(s, 1) IN
         IF i = 0 THEN <<s>>
         ELSE <<SubSeq(s, 1, i)>> \o ReadLines(SubSeq(s, i + 1, Len(s)))

\* A slice that drops one line only.
TrimLinesKeepSecond(lines) == SubSeq(lines, 2, Len(lines))

\* lines[2:]
TrimLines(lines) == SubSeq(lines, 3, Len(lines))

\* file.writelines(new_content): the lines one after the other.
RECURSIVE Flatten(_)
Flatten(lines) ==
    IF lines = <<>> THEN <<>> ELSE Head(lines) \o Flatten(Tail(lines))

\* Length of the run of "#" that s starts with.
RECURSIVE HashRun(_)
HashRun(s) ==
    IF s # <<>> /\ Head(s) = "#" THEN 1 + HashRun(Tail(s)) ELSE 0

\* A replacement that keeps the whole group.
ReplKeepAll(k) == [i \in 1..k |-> "#"] \o <<" ">>

\* lambda m: m.group(1)[:-1] + " ", for a group of k "#".
Repl(k) == [i \in 1..(k - 1) |-> "#"] \o <<" ">>

\* re.sub(r"^(#+) ", ..., content, flags=re.MULTILINE): a left-to-right scan;
\* "^" matches at the start of the text and right after every "\n".
RECURSIVE ReSub(_, _)
ReSub(s, atStart) ==
    IF s = <<>> THEN <<>>
    ELSE LET k == HashRun(s) IN
         IF atStart /\ k >= 1 /\ Len(s) > k /\ s[k + 1] = " "
         THEN Repl(k) \o ReSub(SubSeq(s, k + 2, Len(s)), FALSE)
         ELSE <<Head(s)>> \o ReSub(Tail(s), Head(s) = LF)

(***************************************************************************)
(* Names and paths                                                         *)
(***************************************************************************)

docs == <<"docs">>
modules == <<"modules">>
classes == <<"classes">>
subclasses == <<"sub", "classes">>
inner == <<"inner">>
README_md == <<"README", ".md">>
old_md == <<"old", ".md">>
guide_md == <<"guide", ".md">>
NOTES_MD == <<"NOTES", ".MD">>
Foo_md == <<"Foo", ".md">>
Foo_md_bak == <<"Foo", ".md", ".bak">>
Deep_md == <<"Deep", ".md">>
Bar_md == <<"Bar", ".md">>

\* docs_directory = 'docs'
docs_directory == <<docs>>

\* os.path.join(directory, name)
Join(directory, name) == Append(directory, name)

\* The text of a path: its names' fragments, "/" between the names.
RECURSIVE PathStr(_)
PathStr(p) ==
    IF Len(p) = 1 THEN p[1] ELSE p[1] \o <<"/">> \o PathStr(Tail(p))

\* t in s, for texts.
Contains(s, t) ==
    \E i \in 1..(Len(s) + 1 - Len(t)) : SubSeq(s, i, i + Len(t) - 1) = t

\* 'classes' in root
InClasses(dir) == Contains(PathStr(dir), classes)

\* A test that takes every file for a Markdown file.
EndsWithMdAlways(name) == TRUE

\* file.endswith('.md')
EndsWithMd(name) == name[Len(name)] = ".md"

\* The tree the run may find under the working directory.
Dirs ==
    { docs_directory,
      <<docs, modules>>,
      <<docs, classes>>,
      <<docs, classes, inner>>,
      <<docs, subclasses>> }

MdFiles ==
    { <<docs, guide_md>>,
      <<docs, classes, Foo_md>>,
      <<docs, classes, inner, Deep_md>>,
      <<docs, subclasses, Bar_md>> }

OtherFiles ==
    { <<docs, NOTES_MD>>,
      <<docs, classes, Foo_md_bak>> }

Files == MdFiles \cup OtherFiles \cup { <<docs, modules, old_md>>, <<docs, README_md>> }

Tree == Dirs \cup Files

Parent(p) == SubSeq(p, 1, Len(p) - 1)
Name(p) == p[Len(p)]
IsPrefix(d, p) == Len(d) <= Len(p) /\ SubSeq(p, 1, Len(d)) = d

\* What a path names: nothing, a regular file, a directory, a symbolic link
\* to a file or to a directory, or a symbolic link whose target is missing.
Kinds == {"absent", "file", "dir", "linkfile", "linkdir", "dangling"}

(***************************************************************************)
(* State                                                                   *)
(***************************************************************************)

VARIABLES
    kind,       \* the file system: what each path of Tree names
    data,       \* the file system: the content of each file
    linesep,    \* os.linesep of the platform
    stmt,       \* the module-level statement being run (an index of Main)
    pc,         \* the position inside it
    stack,      \* os.walk: the directories still to list
    root,       \* explore_directory: the directory being visited
    files,      \* explore_directory: its files not yet iterated over
    file,       \* explore_directory: the file being handled
    lines,      \* process_file: the result of readlines()
    content,    \* adjust_headers: the result of read()
    err,        \* the call that raised, "none" while nothing has
    runs,       \* completed runs so far
    log,        \* history: the file system calls of this run, in order
    kind0,      \* history: kind when this run started
    start,      \* history: data when this run started
    orig,       \* history: data when the first run started
    trimmed     \* history: what process_file wrote to each file in this run

vars ==
    << kind, data, linesep, stmt, pc, stack, root, files, file, lines,
       content, err, runs, log, kind0, start, orig, trimmed >>

\* The statements at module level, in the order they run.
MainWalkFirst == << "explore_directory", "remove_useless_docs" >>

\* remove_useless_docs(docs_directory); explore_directory(docs_directory)
Main == << "remove_useless_docs", "explore_directory" >>

\* Where a function's body starts.
EntryOf(fn) == IF fn = "remove_useless_docs" THEN "rm_modules" ELSE "explore"

\* The position after the i-th module-level statement has returned.
AfterStmt(i) == IF i < Len(Main) THEN EntryOf(Main[i + 1]) ELSE "done"

\* An exception that is caught and dropped, the walk going on.
OnErrorContinue == "walk"

\* No call is inside a try: an exception ends the run.
OnError == "failed"

(***************************************************************************)
(* Initial trees                                                           *)
(***************************************************************************)

Hashes(k) == [i \in 1..k |-> "#"]
CRLF == <<CR, LF>>

\* Lines a document is made of: a text and the terminator that follows it.
LinePool ==
    << [text |-> Hashes(1) \o <<" ", "a">>,            term |-> <<LF>>],
       [text |-> <<"b">>,                              term |-> CRLF],
       [text |-> Hashes(3) \o <<" ", "e">>,            term |-> CRLF],
       [text |-> <<"#", "d">>,                         term |-> <<CR>>],
       [text |-> <<"#", " ", "#", " ", "g">>,          term |-> <<LF>>],
       [text |-> <<" ", "#", " ", "f">>,               term |-> <<LF>>],
       [text |-> Hashes(2) \o <<" ", "c">>,            term |-> <<LF>>],
       [text |-> <<>>,                                 term |-> <<LF>>],
       [text |-> <<"h", " ", "#", "#", " ", "i">>,     term |-> <<CR>>],
       [text |-> <<"#", " ">>,                         term |-> <<LF>>] >>

\* The n lines of the pool from the i-th on; the last one without its
\* terminator when open is TRUE.
RECURSIVE Doc(_, _, _)
Doc(i, n, open) ==
    IF n = 0 THEN <<>>
    ELSE LinePool[i].text
         \o (IF n = 1 /\ open THEN <<>> ELSE LinePool[i].term)
         \o Doc(i + 1, n - 1, open)

Docs ==
    { Doc(w[1], w[2], w[3]) :
        w \in { v \in (1..Len(LinePool)) \X (0..MaxLines) \X BOOLEAN :
                  v[1] + v[2] <= Len(LinePool) + 1 } }

\* What a file holds when Init does not vary it.
DefaultDoc(f) ==
    CASE f = <<docs, classes, Foo_md>> -> Doc(3, 4, FALSE)
      [] f = <<docs, classes, inner, Deep_md>> -> Doc(5, 5, TRUE)
      [] f = <<docs, subclasses, Bar_md>> -> Doc(5, 3, FALSE)
      [] f = <<docs, modules, old_md>> -> Doc(1, 1, FALSE)
      [] OTHER -> Doc(1, 3, FALSE)

modules_dir == Join(docs_directory, modules)
readme_file == Join(docs_directory, README_md)

\* No docs directory at all.
InitKindNoRoot == [p \in Tree |-> "absent"]

\* A docs directory with modules and README.md of kinds km and kr.
InitKind(km, kr) ==
    [p \in Tree |->
        IF p = modules_dir THEN km
        ELSE IF p = readme_file THEN kr
        ELSE IF Parent(p) = modules_dir
             THEN (IF km = "dir" THEN "file" ELSE "absent")
        ELSE IF p \in Dirs THEN "dir" ELSE "file"]

InitData(k, focus, c) ==
    [f \in Files |->
        IF k[f] # "file" THEN <<>>
        ELSE IF f = focus THEN c
        ELSE DefaultDoc(f)]

\* The script has just been started.
Started ==
    /\ linesep \in {<<LF>>, CRLF}
    /\ stmt = 1
    /\ pc = EntryOf(Main[1])
    /\ stack = <<>>
    /\ root = <<>>
    /\ files = {}
    /\ file = <<>>
    /\ lines = <<>>
    /\ content = <<>>
    /\ err = "none"
    /\ runs = 0
    /\ log = <<>>
    /\ kind0 = kind
    /\ start = data
    /\ orig = data
    /\ trimmed = data

\* The trees a first run starts on: no docs directory; modules and README.md
\* of any kind, every file holding its default document; modules and
\* README.md as generated or missing, one Markdown file holding any document.
Init ==
    /\ \/ /\ kind = InitKindNoRoot
          /\ data = InitData(kind, <<>>, <<>>)
       \/ /\ \E km \in Kinds, kr \in Kinds : kind = InitKind(km, kr)
          /\ data = InitData(kind, <<>>, <<>>)
       \/ /\ kind \in {InitKind("dir", "file"), InitKind("absent", "absent")}
          /\ \E focus \in MdFiles, c \in Docs : data = InitData(kind, focus, c)
    /\ Started

\* Every text of at most n characters.
Chars == {"#", " ", "a", LF, CR}
Strings(n) == UNION { [1..k -> Chars] : k \in 0..n }

\* Two lines for process_file to drop.
Filler == <<"x", LF, "y", CR, LF>>

\* A docs directory that holds classes/Foo.md and classes/inner/Deep.md only.
TextKind ==
    [p \in Tree |->
        IF p \in {<<docs, classes, Foo_md>>, <<docs, classes, inner, Deep_md>>}
        THEN "file"
        ELSE IF p \in Dirs /\ IsPrefix(p, <<docs, classes, inner>>) THEN "dir"
        ELSE "absent"]

\* Foo.md holds the filler and then any text, Deep.md that text alone.
TextInit ==
    /\ kind = TextKind
    /\ \E s \in Strings(MaxLen) :
         data = [f \in Files |->
                    IF f = <<docs, classes, Foo_md>> THEN Filler \o s
                    ELSE IF f = <<docs, classes, inner, Deep_md>> THEN s
                    ELSE <<>>]
    /\ Started

(***************************************************************************)
(* File system calls                                                       *)
(***************************************************************************)

\* An existence test that never finds anything.
PathExistsNever(p) == FALSE

\* An existence test that finds everything.
PathExistsAlways(p) == TRUE

\* os.path.exists(p): follows symbolic links, FALSE when the target is missing.
PathExists(p) == kind[p] \in {"file", "dir", "linkfile", "linkdir"}

Ev(op, p) == [op |-> op, path |-> p]

\* The entries of directory d.
Children(d) == { p \in Tree : Parent(p) = d /\ kind[p] # "absent" }

\* os.walk's split of a listing: entries for which is_dir() holds go to dirs,
\* the others to files; of dirs, symbolic links are not walked into.
NonDirs(d) == { Name(p) : p \in { q \in Children(d) : kind[q] \notin {"dir", "linkdir"} } }
SubDirs(d) == { p \in Children(d) : kind[p] = "dir" }

\* The orders a listing may come in.
Perms(S) ==
    { s \in [1..Cardinality(S) -> S] :
        \A i, j \in DOMAIN s : i # j => s[i] # s[j] }

\* The file system with everything in `gone` deleted.
Without(gone) == [p \in Tree |-> IF p \in gone THEN "absent" ELSE kind[p]]
Erased(gone) == [f \in Files |-> IF f \in gone THEN <<>> ELSE data[f]]

\* A module-level statement returns: the next one starts, or the run is over.
Return ==
    /\ stmt' = stmt + 1
    /\ pc' = AfterStmt(stmt)
    /\ runs' = IF AfterStmt(stmt) = "done" THEN runs + 1 ELSE runs

Raise(call) ==
    /\ pc' = OnError
    /\ err' = call

(***************************************************************************)
(* remove_useless_docs                                                     *)
(***************************************************************************)

\* if os.path.exists(modules_dir): (no)
remove_useless_docs_NoModules ==
    /\ pc = "rm_modules"
    /\ ~PathExists(modules_dir)
    /\ pc' = "rm_readme"
    /\ log' = Append(log, Ev("exists", modules_dir))
    /\ UNCHANGED << kind, data, linesep, stmt, stack, root, files, file, lines,
                    content, err, runs, kind0, start, orig, trimmed >>

\* shutil.rmtree(modules_dir) of a directory.
remove_useless_docs_Rmtree ==
    /\ pc = "rm_modules"
    /\ PathExists(modules_dir)
    /\ kind[modules_dir] = "dir"
    /\ LET gone == { p \in Tree : IsPrefix(modules_dir, p) } IN
         /\ kind' = Without(gone)
         /\ data' = Erased(gone)
    /\ pc' = "rm_readme"
    /\ log' = log \o << Ev("exists", modules_dir), Ev("rmtree", modules_dir) >>
    /\ UNCHANGED << linesep, stmt, stack, root, files, file, lines,
                    content, err, runs, kind0, start, orig, trimmed >>

\* shutil.rmtree(modules_dir) raises: on anything but a directory at once, on
\* a directory after it has deleted some of what is inside.
remove_useless_docs_RmtreeRaises ==
    /\ pc = "rm_modules"
    /\ PathExists(modules_dir)
    /\ IF kind[modules_dir] = "dir"
       THEN \E gone \in SUBSET { p \in Tree : Parent(p) = modules_dir } :
              /\ kind' = Without(gone)
              /\ data' = Erased(gone)
       ELSE UNCHANGED << kind, data >>
    /\ Raise("rmtree")
    /\ log' = log \o << Ev("exists", modules_dir), Ev("rmtree", modules_dir) >>
    /\ UNCHANGED << linesep, stmt, stack, root, files, file, lines,
                    content, runs, kind0, start, orig, trimmed >>

\* if os.path.exists(readme_file): (no)
remove_useless_docs_NoReadme ==
    /\ pc = "rm_readme"
    /\ ~PathExists(readme_file)
    /\ Return
    /\ log' = Append(log, Ev("exists", readme_file))
    /\ UNCHANGED << kind, data, linesep, stack, root, files, file, lines,
                    content, err, kind0, start, orig, trimmed >>

\* os.remove(readme_file) of a file or of a symbolic link.
remove_useless_docs_Remove ==
    /\ pc = "rm_readme"
    /\ PathExists(readme_file)
    /\ kind[readme_file] \in {"file", "linkfile", "linkdir", "dangling"}
    /\ kind' = Without({readme_file})
    /\ data' = Erased({readme_file})
    /\ Return
    /\ log' = log \o << Ev("exists", readme_file), Ev("remove", readme_file) >>
    /\ UNCHANGED << linesep, stack, root, files, file, lines,
                    content, err, kind0, start, orig, trimmed >>

\* os.remove(readme_file) raises: always on a directory.
remove_useless_docs_RemoveRaises ==
    /\ pc = "rm_readme"
    /\ PathExists(readme_file)
    /\ Raise("remove")
    /\ log' = log \o << Ev("exists", readme_file), Ev("remove", readme_file) >>
    /\ UNCHANGED << kind, data, linesep, stmt, stack, root, files, file, lines,
                    content, runs, kind0, start, orig, trimmed >>

(***************************************************************************)
(* explore_directory                                                       *)
(***************************************************************************)

\* os.walk(directory) is called.
explore_directory_Start ==
    /\ pc = "explore"
    /\ stack' = << docs_directory >>
    /\ files' = {}
    /\ pc' = "walk"
    /\ UNCHANGED << kind, data, linesep, stmt, root, file, lines, content,
                    err, runs, log, kind0, start, orig, trimmed >>

\* for root, _, files in os.walk(directory): the next directory is listed. A
\* listing that fails is dropped by os.walk (onerror is None).
explore_directory_NextDir ==
    /\ pc = "walk"
    /\ files = {}
    /\ stack # <<>>
    /\ LET d == Head(stack) IN
         IF kind[d] = "dir"
         THEN /\ \E order \in Perms(SubDirs(d)) : stack' = order \o Tail(stack)
              /\ files' = NonDirs(d)
              /\ root' = d
         ELSE /\ stack' = Tail(stack)
              /\ UNCHANGED << files, root >>
    /\ log' = Append(log, Ev("scandir", Head(stack)))
    /\ UNCHANGED << kind, data, linesep, stmt, pc, file, lines, content,
                    err, runs, kind0, start, orig, trimmed >>

\* for file in files: if file.endswith('.md'):
explore_directory_NextFile ==
    /\ pc = "walk"
    /\ \E f \in files :
         /\ files' = files \ {f}
         /\ file' = f
         /\ pc' = IF EndsWithMd(f) THEN "pf_read" ELSE "walk"
    /\ UNCHANGED << kind, data, linesep, stmt, stack, root, lines, content,
                    err, runs, log, kind0, start, orig, trimmed >>

\* The walk is exhausted: explore_directory returns.
explore_directory_Return ==
    /\ pc = "walk"
    /\ files = {}
    /\ stack = <<>>
    /\ Return
    /\ UNCHANGED << kind, data, linesep, stack, root, files, file, lines,
                    content, err, log, kind0, start, orig, trimmed >>

(***************************************************************************)
(* process_file                                                            *)
(***************************************************************************)

filepath == Join(root, file)

\* with open(filepath, 'r') as file: lines = file.readlines()
process_file_Read ==
    /\ pc = "pf_read"
    /\ kind[filepath] = "file"
    /\ lines' = ReadLines(Decode(data[filepath]))
    /\ pc' = "pf_write"
    /\ log' = Append(log, Ev("pf_read", filepath))
    /\ UNCHANGED << kind, data, linesep, stmt, stack, root, files, file,
                    content, err, runs, kind0, start, orig, trimmed >>

\* open(filepath, 'r') or readlines() raises: always when there is no file.
process_file_ReadRaises ==
    /\ pc = "pf_read"
    /\ Raise("pf_read")
    /\ log' = Append(log, Ev("pf_read", filepath))
    /\ UNCHANGED << kind, data, linesep, stmt, stack, root, files, file, lines,
                    content, runs, kind0, start, orig, trimmed >>

\* How much of a text s had reached the file when writing it raised: nothing,
\* any part, or all of it.
Cuts(s) == 0..Len(s)

\* new_content = lines[2:]
new_content == TrimLines(lines)

\* What file.writelines(new_content) puts in the file.
written_lines == Encode(Flatten(new_content), linesep)

\* The call made after process_file when the directory is a classes one.
AfterProcess == IF InClasses(root) THEN "ah_read" ELSE "walk"

\* with open(filepath, 'w') as file: file.writelines(new_content)
process_file_Write ==
    /\ pc = "pf_write"
    /\ data' = [data EXCEPT ![filepath] = written_lines]
    /\ trimmed' = [trimmed EXCEPT ![filepath] = written_lines]
    /\ lines' = <<>>
    /\ pc' = AfterProcess
    /\ log' = Append(log, Ev("pf_write", filepath))
    /\ UNCHANGED << kind, linesep, stmt, stack, root, files, file,
                    content, err, runs, kind0, start, orig >>

\* open(filepath, 'w') raises: the file is as it was.
process_file_OpenRaises ==
    /\ pc = "pf_write"
    /\ Raise("pf_open")
    /\ log' = Append(log, Ev("pf_write", filepath))
    /\ UNCHANGED << kind, data, linesep, stmt, stack, root, files, file, lines,
                    content, runs, kind0, start, orig, trimmed >>

\* The file is open and truncated, and writing or closing it raises: it holds
\* what had reached it, some prefix of the new content.
process_file_WriteRaises ==
    /\ pc = "pf_write"
    /\ \E n \in Cuts(written_lines) :
         data' = [data EXCEPT ![filepath] = SubSeq(written_lines, 1, n)]
    /\ Raise("pf_write")
    /\ log' = Append(log, Ev("pf_write", filepath))
    /\ UNCHANGED << kind, linesep, stmt, stack, root, files, file, lines,
                    content, runs, kind0, start, orig, trimmed >>

(***************************************************************************)
(* adjust_headers                                                          *)
(***************************************************************************)

\* with open(filepath, 'r') as file: content = file.read()
adjust_headers_Read ==
    /\ pc = "ah_read"
    /\ content' = Decode(data[filepath])
    /\ pc' = "ah_write"
    /\ log' = Append(log, Ev("ah_read", filepath))
    /\ UNCHANGED << kind, data, linesep, stmt, stack, root, files, file, lines,
                    err, runs, kind0, start, orig, trimmed >>

\* open(filepath, 'r') or read() raises.
adjust_headers_ReadRaises ==
    /\ pc = "ah_read"
    /\ Raise("ah_read")
    /\ log' = Append(log, Ev("ah_read", filepath))
    /\ UNCHANGED << kind, data, linesep, stmt, stack, root, files, file, lines,
                    content, runs, kind0, start, orig, trimmed >>

\* adjusted_content = re.sub(...)
adjusted_content == ReSub(content, TRUE)

\* What file.write(adjusted_content) puts in the file.
written_content == Encode(adjusted_content, linesep)

\* with open(filepath, 'w') as file: file.write(adjusted_content)
adjust_headers_Write ==
    /\ pc = "ah_write"
    /\ data' = [data EXCEPT ![filepath] = written_content]
    /\ content' = <<>>
    /\ pc' = "walk"
    /\ log' = Append(log, Ev("ah_write", filepath))
    /\ UNCHANGED << kind, linesep, stmt, stack, root, files, file, lines,
                    err, runs, kind0, start, orig, trimmed >>

\* open(filepath, 'w') raises: the file is as it was.
adjust_headers_OpenRaises ==
    /\ pc = "ah_write"
    /\ Raise("ah_open")
    /\ log' = Append(log, Ev("ah_write", filepath))
    /\ UNCHANGED << kind, data, linesep, stmt, stack, root, files, file, lines,
                    content, runs, kind0, start, orig, trimmed >>

\* The file is open and truncated, and writing or closing it raises.
adjust_headers_WriteRaises ==
    /\ pc = "ah_write"
    /\ \E n \in Cuts(written_content) :
         data' = [data EXCEPT ![filepath] = SubSeq(written_content, 1, n)]
    /\ Raise("ah_write")
    /\ log' = Append(log, Ev("ah_write", filepath))
    /\ UNCHANGED << kind, linesep, stmt, stack, root, files, file, lines,
                    content, runs, kind0, start, orig, trimmed >>

(***************************************************************************)
(* The script, run again and again                                         *)
(***************************************************************************)

\* The script is started again on the tree the last run left.
Rerun ==
    /\ pc = "done"
    /\ runs < MaxRuns
    /\ stmt' = 1
    /\ pc' = EntryOf(Main[1])
    /\ stack' = <<>>
    /\ root' = <<>>
    /\ files' = {}
    /\ file' = <<>>
    /\ log' = <<>>
    /\ kind0' = kind
    /\ start' = data
    /\ trimmed' = data
    /\ UNCHANGED << kind, data, linesep, lines, content, err, runs, orig >>

Next ==
    \/ remove_useless_docs_NoModules \/ remove_useless_docs_Rmtree \/ remove_useless_docs_RmtreeRaises
    \/ remove_useless_docs_NoReadme \/ remove_useless_docs_Remove \/ remove_useless_docs_RemoveRaises
    \/ explore_directory_Start \/ explore_directory_NextDir \/ explore_directory_NextFile \/ explore_directory_Return
    \/ process_file_Read \/ process_file_ReadRaises
    \/ process_file_Write \/ process_file_OpenRaises \/ process_file_WriteRaises
    \/ adjust_headers_Read \/ adjust_headers_ReadRaises
    \/ adjust_headers_Write \/ adjust_headers_OpenRaises \/ adjust_headers_WriteRaises
    \/ Rerun

Spec == Init /\ [][Next]_vars

\* One run in which no call raises, on a tree whose two files hold any text.
TextNext ==
    \/ remove_useless_docs_NoModules \/ remove_useless_docs_NoReadme
    \/ explore_directory_Start \/ explore_directory_NextDir \/ explore_directory_NextFile \/ explore_directory_Return
    \/ process_file_Read \/ process_file_Write
    \/ adjust_headers_Read \/ adjust_headers_Write

TextSpec == TextInit /\ [][TextNext]_vars

(***************************************************************************)
(* Vocabulary of the properties: lines, headings, places                   *)
(***************************************************************************)

\* The lines of a file's content, each the text before its terminator and the
\* terminator ("\n", "\r\n", "\r", or none at the end of the file).
RECURSIVE SplitRaw(_, _)
SplitRaw(s, cur) ==
    IF s = <<>>
    THEN (IF cur = <<>> THEN <<>> ELSE << [text |-> cur, term |-> <<>>] >>)
    ELSE IF Head(s) = LF
    THEN << [text |-> cur, term |-> <<LF>>] >> \o SplitRaw(Tail(s), <<>>)
    ELSE IF Head(s) = CR /\ Len(s) >= 2 /\ s[2] = LF
    THEN << [text |-> cur, term |-> CRLF] >> \o SplitRaw(SubSeq(s, 3, Len(s)), <<>>)
    ELSE IF Head(s) = CR
    THEN << [text |-> cur, term |-> <<CR>>] >> \o SplitRaw(Tail(s), <<>>)
    ELSE SplitRaw(Tail(s), Append(cur, Head(s)))

RawLines(s) == SplitRaw(s, <<>>)
Texts(s) == LET R == RawLines(s) IN [i \in DOMAIN R |-> R[i].text]
Terms(s) == LET R == RawLines(s) IN [i \in DOMAIN R |-> R[i].term]

Min(a, b) == IF a <= b THEN a ELSE b

\* The number of "#" a line starts with.
Level(t) == Cardinality({ k \in 1..Len(t) : \A i \in 1..k : t[i] = "#" })

\* A heading line: one or more "#" at column 0, then a space.
IsHeading(t) == Level(t) >= 1 /\ Len(t) > Level(t) /\ t[Level(t) + 1] = " "

\* A heading line with k of its "#" removed (all of them when it has fewer);
\* any other line as it is.
DemotedBy(t, k) ==
    IF IsHeading(t) THEN SubSeq(t, Min(k, Level(t)) + 1, Len(t)) ELSE t

\* f has an ancestor directory named exactly "classes".
UnderClasses(f) == \E i \in 1..(Len(f) - 1) : f[i] = classes

\* The text "classes" occurs in the name of an ancestor directory of f.
UnderClassesLike(f) ==
    \E i \in 1..(Len(f) - 1) : \E j \in DOMAIN f[i] : f[i][j] = "classes"

\* The Markdown files there are.
AllMd == { f \in Files : Name(f)[Len(Name(f))] = ".md" }
PresentMd == { f \in AllMd : kind[f] = "file" }

\* The calls of this run that have returned: all of the log, but for the
\* call that raised.
Returned == IF err = "none" THEN log ELSE SubSeq(log, 1, Len(log) - 1)

HasReturned(op, f) == \E i \in DOMAIN Returned : Returned[i] = Ev(op, f)

FileOps == {"pf_read", "pf_write", "ah_read", "ah_write"}
CleanupOps == {"exists", "rmtree", "remove"}

\* The file events of the log, in order.
FileEvents == SelectSeq(log, LAMBDA e : e.op \in FileOps)

(***************************************************************************)
(* Properties                                                              *)
(***************************************************************************)

\* f holds the lines of `before` from the third on, in order; each as it was
\* when keep is TRUE, each with one "#" off its heading marker otherwise.
HoldsTail(f, before, keep) ==
    LET L == Texts(before)
        out == Texts(data[f])
    IN  /\ Len(out) = (IF Len(L) >= 2 THEN Len(L) - 2 ELSE 0)
        /\ \A i \in DOMAIN out :
             out[i] = IF keep THEN L[i + 2] ELSE DemotedBy(L[i + 2], 1)

\* C1 as stated: after a completed run every Markdown file the walk reached
\* holds exactly the lines L[2..N) of its content before the run, and is empty
\* when N < 2.
C1_ExactlyTail ==
    pc = "done" =>
        \A f \in PresentMd : HoldsTail(f, start[f], TRUE)

\* C1 amended: after a completed run every Markdown file the walk reached
\* holds N - 2 lines (none when N < 2), the i-th being L[i + 2]: unchanged when
\* the path of the file's directory does not contain "classes", and with one
\* "#" removed from its heading marker, if it is a heading line, when it does.
C1_TailModuloHeadings ==
    pc = "done" =>
        \A f \in PresentMd : HoldsTail(f, start[f], ~UnderClassesLike(f))

\* A run has completed in which a one-line file was emptied and a file of
\* five lines kept its last three.
C1_Witness ==
    /\ pc = "done"
    /\ \E f \in PresentMd :
         Len(Texts(start[f])) = 1 /\ start[f] # <<>> /\ data[f] = <<>>
    /\ \E f \in PresentMd :
         Len(Texts(start[f])) = 5 /\ Len(Texts(data[f])) = 3

\* The files process_file has written back in this run.
TrimmedFiles == { f \in Files : HasReturned("pf_write", f) }

\* C2: every line process_file keeps is written back with the terminator it
\* had in the file.
C2_TerminatorsPreserved ==
    \A f \in TrimmedFiles :
        LET T == Terms(start[f]) IN
        Terms(trimmed[f]) = SubSeq(T, 3, Len(T))

\* C3: after a completed run, in every Markdown file under a directory named
\* "classes", each line of the trimmed content that starts with k >= 1 "#"
\* and a space has k - 1 "#" and is otherwise the same, every other line is
\* unchanged, and the lines are as many and in the same order.
C3_HeadingsDemoted ==
    pc = "done" =>
        \A f \in { g \in PresentMd : UnderClasses(g) } :
            LET T == RawLines(trimmed[f])
                O == RawLines(data[f])
            IN  /\ Len(O) = Len(T)
                /\ \A i \in DOMAIN T :
                     /\ O[i].term = T[i].term
                     /\ O[i].text =
                          IF IsHeading(T[i].text)
                          THEN Hashes(Level(T[i].text) - 1)
                               \o SubSeq(T[i].text, Level(T[i].text) + 1, Len(T[i].text))
                          ELSE T[i].text

\* A run has completed in which, under classes, a level-2 heading came out
\* with one "#" and a line with "#" but no heading marker as it was.
C3_Witness ==
    /\ pc = "done"
    /\ \E f \in { g \in PresentMd : UnderClasses(g) } :
         LET T == Texts(trimmed[f])
             O == Texts(data[f])
         IN  /\ \E i \in DOMAIN T :
                  IsHeading(T[i]) /\ Level(T[i]) = 2 /\ Level(O[i]) = 1
             /\ \E i \in DOMAIN T :
                  ~IsHeading(T[i]) /\ Level(T[i]) = 1 /\ O[i] = T[i]

\* C4: a Markdown file with no ancestor directory named exactly "classes" is
\* never given to adjust_headers: after a completed run it holds its trimmed
\* content.
C4_NoAdjustOutsideClasses ==
    pc = "done" =>
        \A f \in { g \in PresentMd : ~UnderClasses(g) } :
            /\ data[f] = trimmed[f]
            /\ ~HasReturned("ah_read", f)

\* C5 as stated: after a completed run nothing named modules and nothing
\* named README.md is left directly under the root, whatever was there.
C5_NothingLeft ==
    pc = "done" =>
        /\ kind[modules_dir] = "absent"
        /\ kind[readme_file] = "absent"

\* C5 amended: after a completed run nothing named README.md is left directly
\* under the root, and nothing named modules but a symbolic link whose target
\* is missing; and the cleanup raises nothing for an entry that was absent.
C5_CleanupRemoves ==
    /\ pc = "done" =>
         /\ kind[modules_dir] \in {"absent", "dangling"}
         /\ kind[readme_file] = "absent"
    /\ err = "rmtree" => kind0[modules_dir] # "absent"
    /\ err = "remove" => kind0[readme_file] # "absent"

\* A run has completed that found a modules directory with a file inside and
\* a README.md file, and left none of them.
C5_Witness ==
    /\ pc = "done"
    /\ kind0[modules_dir] = "dir"
    /\ kind0[Join(modules_dir, old_md)] = "file"
    /\ kind0[readme_file] = "file"
    /\ \A p \in Tree : IsPrefix(modules_dir, p) => kind[p] = "absent"
    /\ kind[readme_file] = "absent"

\* The directories and the files not named *.md, but for the modules subtree
\* and README.md of the root.
FramePaths == { p \in Dirs \cup OtherFiles : ~IsPrefix(modules_dir, p) }

\* C6: every file whose name does not end in ".md", outside the top-level
\* modules subtree, is in every state of the run what it was: never written
\* to, never deleted; and no directory outside that subtree is removed or
\* created.
C6_Frame ==
    \A p \in FramePaths :
        /\ kind[p] = kind0[p]
        /\ p \in OtherFiles =>
             /\ data[p] = orig[p]
             /\ \A i \in DOMAIN log :
                  log[i].path = p =>
                      log[i].op \notin {"pf_write", "ah_write", "remove", "rmtree"}

\* Two runs have completed, both have rewritten guide.md, and NOTES.MD next
\* to it and Foo.md.bak under classes still hold what they held.
C6_Witness ==
    /\ pc = "done"
    /\ runs = 2
    /\ HasReturned("pf_write", <<docs, guide_md>>)
    /\ data[<<docs, guide_md>>] # orig[<<docs, guide_md>>]
    /\ \A p \in OtherFiles : kind[p] = "file" /\ data[p] = orig[p] /\ data[p] # <<>>

\* C7: the cleanup is over before the first Markdown file is read; a file's
\* heading adjustment starts right after its trimmed content has been written
\* back, and reads that content; and a file is opened only once every call
\* on the file before it has returned.
C7_Ordering ==
    /\ \A j \in DOMAIN log :
         log[j].op \in CleanupOps =>
             \A i \in 1..(j - 1) : log[i].op \notin FileOps
    /\ \A j \in DOMAIN log :
         log[j].op = "ah_read" =>
             j > 1 /\ log[j - 1] = Ev("pf_write", log[j].path)
    /\ pc = "ah_read" => data[filepath] = trimmed[filepath]
    /\ LET FE == FileEvents IN
         /\ \A i \in 1..(Len(FE) - 1) :
              IF FE[i + 1].path = FE[i].path
              THEN << FE[i].op, FE[i + 1].op >> \in
                     { <<"pf_read", "pf_write">>, <<"pf_write", "ah_read">>,
                       <<"ah_read", "ah_write">> }
              ELSE /\ FE[i + 1].op = "pf_read"
                   /\ FE[i].op \in {"pf_write", "ah_write"}
         /\ \A i, j \in DOMAIN FE :
              (i < j /\ FE[i].op = "pf_read" /\ FE[j].op = "pf_read")
                  => FE[i].path # FE[j].path

\* A run has completed that deleted modules and README.md and then trimmed
\* and adjusted the two files under classes and trimmed two others.
C7_Witness ==
    /\ pc = "done"
    /\ \E i \in DOMAIN log : log[i].op = "rmtree"
    /\ \E i \in DOMAIN log : log[i].op = "remove"
    /\ \A f \in MdFiles : HasReturned("pf_write", f)
    /\ HasReturned("ah_write", <<docs, classes, Foo_md>>)
    /\ HasReturned("ah_write", <<docs, classes, inner, Deep_md>>)

\* The file the last call of the log was on.
LastPath == log[Len(log)].path

\* Every call process_file and adjust_headers had to make on f has returned.
Finished(f) ==
    HasReturned(IF UnderClassesLike(f) THEN "ah_write" ELSE "pf_write", f)

\* Neither the cleanup nor the walk has reached f: no call has been made on
\* f, and none to delete f or a directory above it.
Untouched(f) ==
    \A i \in DOMAIN log :
        log[i].op \in FileOps \cup {"rmtree", "remove"} => ~IsPrefix(log[i].path, f)

\* The trimmed content of f with the heading adjustment made.
AdjustedOf(f) ==
    LET R == RawLines(trimmed[f]) IN
    Flatten([i \in DOMAIN R |-> DemotedBy(R[i].text, 1) \o R[i].term])

\* Once a call has raised, the run is over and does nothing more; the files
\* handled before hold their new content, the Markdown files not reached are
\* there and hold what they held; and a file whose adjustment raised one of
\* `calls` is left trimmed, its headings not demoted.
AbortKeeps(calls) ==
    err # "none" =>
        /\ pc = "failed"
        /\ ~ENABLED Next
        /\ \A f \in { g \in AllMd : kind0[g] = "file" } :
             /\ Finished(f) => HoldsTail(f, start[f], ~UnderClassesLike(f))
             /\ Untouched(f) => kind[f] = "file" /\ data[f] = start[f]
        /\ err \in calls =>
             /\ data[LastPath] = trimmed[LastPath]
             /\ HoldsTail(LastPath, start[LastPath], TRUE)

\* C8 as stated: whichever call of adjust_headers raises, the file is left
\* trimmed with its headings not demoted.
C8_AbortLeavesTrimmed == AbortKeeps({"ah_read", "ah_open", "ah_write"})

\* C8 amended: the file is left trimmed when adjust_headers raises before it
\* has reopened the file for writing; when it raises after, the file holds a
\* prefix, which may be empty, of the adjusted content.
C8_AbortKeepsState ==
    /\ AbortKeeps({"ah_read", "ah_open"})
    /\ err = "ah_write" => IsPrefix(data[LastPath], AdjustedOf(LastPath))

\* A run has ended on adjust_headers failing to reopen a file, after another
\* file was handled in full and with a third not yet reached.
C8_Witness ==
    /\ pc = "failed"
    /\ err = "ah_open"
    /\ data[LastPath] = trimmed[LastPath]
    /\ data[LastPath] # start[LastPath]
    /\ \E f \in PresentMd : Finished(f) /\ data[f] # start[f]
    /\ \E f \in PresentMd : Untouched(f) /\ data[f] = start[f]

\* C9: with no docs directory the run completes and raises nothing: nothing
\* is deleted, no file is visited, nothing is created or modified.
C9_NoRoot ==
    kind0[docs_directory] = "absent" =>
        /\ err = "none"
        /\ pc # "failed"
        /\ pc = "done" \/ ENABLED Next
        /\ kind = kind0
        /\ data = start
        /\ file = <<>>
        /\ \A i \in DOMAIN log : log[i].op \in {"exists", "scandir"}

\* A run without a docs directory has completed.
C9_Witness ==
    /\ kind0[docs_directory] = "absent"
    /\ pc = "done"
    /\ runs = 1
    /\ Len(log) = 3

\* After k runs f holds the lines of its first content from the (2k+1)-th on,
\* the heading lines with min(k, h) of their h "#" removed when demote holds.
HoldsAfterRuns(f, k, demote) ==
    LET L == Texts(orig[f])
        d == Min(2 * k, Len(L))
        out == Texts(data[f])
    IN  /\ Len(out) = Len(L) - d
        /\ \A i \in DOMAIN out :
             out[i] = IF demote THEN DemotedBy(L[i + d], k) ELSE L[i + d]

\* C10: after k completed runs every Markdown file of N lines holds the lines
\* [min(2k, N)..N) of its first content; under a directory named "classes"
\* each heading line has lost min(k, h) of its h "#"; elsewhere the lines are
\* as they were.
C10_RepeatedRuns ==
    pc = "done" =>
        \A f \in PresentMd : HoldsAfterRuns(f, runs, UnderClasses(f))

\* The same with the test the code makes: the headings are demoted wherever
\* the directory's path contains "classes".
RepeatedRunsAsCoded ==
    pc = "done" =>
        \A f \in PresentMd : HoldsAfterRuns(f, runs, UnderClassesLike(f))

=============================================================================
